---- MODULE Spec2Model ----
\* AzureSink (src/src/index.ts): a serilogger sink that buffers log events and
\* appends them to an Azure append blob, with size-based rotation of the blob
\* name and count-based retention of old blobs.
\*
\* JavaScript runs each callback to completion, so one action is one
\* synchronous run: a public call (emit, flush), a timer callback, or the
\* continuation of an async function after one awaited backend call.  A
\* backend call is issued at the end of the run that reaches its await; the
\* action named after the call applies the backend's effect and runs the
\* continuation up to the next await.
EXTENDS Integers, Sequences, FiniteSets, TLC

\* ---------------------------------------------------------------- bounds
MaxEvents == 2      \* events handed to emit over a run
MaxTime == 2        \* last clock instant explored

\* ------------------------------------------------------------- constants
debug == 31         \* LogEventLevel.debug, the default minimum level

Levels == {1, 3, 7, 15, 31, 63}

VARIABLES
  given,            \* the options object passed to the constructor
  options,          \* this.options: defaults merged with the caller's options
  env,              \* the surroundings: levels the producer emits, faults
  now,              \* the clock, in seconds (Date, timers, the backend)
  eventBuffer,      \* this.eventBuffer
  flushTimer,       \* this.flushTimer: id of the interval, 0 when undefined
  timers,           \* the intervals the runtime holds armed
  nTimers,          \* ids handed out by setInterval so far
  currentBlobName,  \* this.currentBlobName
  writes,           \* every flush that detached a buffer, in start order
  container,        \* the storage container: blob name -> blob
  emits,            \* every batch handed to emit, in call order
  lastBatch,        \* the last batch-threshold trigger: [at, n], n counts them
  lastFire          \* the last timer callback run: [timer, armedAt, at, nth]

vars == <<given, options, env, now, eventBuffer, flushTimer, timers, nTimers,
          currentBlobName, writes, container, emits, lastBatch, lastFire>>

\* ------------------------------------------------------------ blob names
BaseName == [kind |-> "base", ts |-> 0]          \* options.storageFileName
OtherName == [kind |-> "other", ts |-> 0]        \* a blob of another prefix

\* generateNewBlobName: base name without ".txt", "-", the ISO instant, ".txt"
generateNewBlobName(t) == [kind |-> "gen", ts |-> t]

\* cleanupOldBlobs: prefix = storageFileName without ".txt"; listBlobsFlat
\* yields the blobs whose name starts with it
HasPrefix(name) == name.kind \in {"base", "gen"}

\* listBlobsFlat yields names in lexicographic order: "base-<instant>.txt"
\* sorts before "base.txt" ("-" < "."), and instants sort chronologically
ListedBefore(a, b) ==
  \/ a.kind = "gen" /\ b.kind = "base"
  \/ a.kind = "gen" /\ b.kind = "gen" /\ a.ts < b.ts

\* ---------------------------------------------------------------- options
\* defaults whose minimum level is Verbose
DefaultOptionsVerbose ==
  [period |-> 10, batchPostingLimit |-> 100, flushImmediately |-> FALSE,
   restrictedToMinimumLevel |-> 63, disabled |-> FALSE]

defaultOptions ==
  [period |-> 10, batchPostingLimit |-> 100, flushImmediately |-> FALSE,
   restrictedToMinimumLevel |-> debug, disabled |-> FALSE]

\* { ...defaultOptions, ...(options || {}) }
MergeOptions(defaults, passed) ==
  [k \in DOMAIN defaults \cup DOMAIN passed |->
     IF k \in DOMAIN passed THEN passed[k] ELSE defaults[k]]

\* an option the caller left out reads as undefined; 0 stands for it where
\* the code only tests truthiness (blobSizeLimitBytes, retainedBlobCountLimit)
Opt(k) == IF k \in DOMAIN options THEN options[k] ELSE 0

\* setInterval delay of startTimer: period * 1000 milliseconds, which is
\* period instants of the clock, which counts seconds
Delay == options.period

\* ----------------------------------------------------------------- format
mapLogLevel(logLevel) ==
  IF logLevel = 1 THEN "Fatal"
  ELSE IF logLevel = 3 THEN "Error"
  ELSE IF logLevel = 7 THEN "Warning"
  ELSE IF logLevel = 31 THEN "Debug"
  ELSE IF logLevel = 63 THEN "Verbose"
  ELSE "Information"

NL == [nl |-> 1]

\* `[${e.timestamp} ${mapLogLevel(e.level)}]: ${render}`: the event's own
\* text (timestamp and rendered message, identified by e.id), its label, and
\* the UTF-8 length of the whole line
Line(e) == [event |-> e.id, label |-> mapLogLevel(e.level), bytes |-> e.bytes]

RECURSIVE Join(_)
Join(lines) ==
  IF Len(lines) = 0 THEN <<>>
  ELSE IF Len(lines) = 1 THEN <<lines[1]>>
  ELSE <<lines[1], NL>> \o Join(Tail(lines))

\* the join without the final newline
FormatNoTrailingNewline(events) ==
  Join([k \in 1..Len(events) |-> Line(events[k])])

\* lines.join("\n") + "\n"
Format(events) == Join([k \in 1..Len(events) |-> Line(events[k])]) \o <<NL>>

RECURSIVE ByteLength(_)
ByteLength(content) ==
  IF Len(content) = 0 THEN 0
  ELSE (IF content[1] = NL THEN 1 ELSE content[1].bytes)
       + ByteLength(Tail(content))

\* ------------------------------------------------------------------ timer
Due(t) == t.armedAt + (t.fires + 1) * Delay

\* startTimer without the clearInterval: the old interval stays armed
StartTimerNoClear(ts, handle, n) ==
  [timers |-> ts \cup {[id |-> n + 1, armedAt |-> now, fires |-> 0]},
   flushTimer |-> n + 1, nTimers |-> n + 1]

\* startTimer: clearInterval(this.flushTimer), then setInterval
startTimer(ts, handle, n) ==
  [timers |-> {t \in ts : t.id # handle}
                \cup {[id |-> n + 1, armedAt |-> now, fires |-> 0]},
   flushTimer |-> n + 1, nTimers |-> n + 1]

\* ------------------------------------------------------------------ write
\* the call a write issues and then awaits
Issue(w, op, blob) ==
  [w EXCEPT !.pc = op,
            !.calls = Append(@, [op |-> op, blob |-> blob,
                                 arg |-> IF op = "appendBlock" THEN w.content
                                         ELSE <<>>])]

\* writeToAzure up to its first await: the client is bound to the blob name
\* current at that moment, and exists() is issued.  trigger records who called
\* flush and how many events emit had been handed by then
writeToAzure(events, content, trigger) ==
  Issue([events |-> events, content |-> content, client |-> currentBlobName,
         pc |-> "start", calls |-> <<>>, queue |-> <<>>, listed |-> <<>>,
         failed |-> FALSE, rotated |-> FALSE, trigger |-> trigger,
         result |-> "pending"],
        "exists", currentBlobName)

\* flush without the swap: the buffer keeps the events it hands on
FlushKeepBuffer(buf, ws, trigger) ==
  IF options.disabled \/ Len(buf) = 0
  THEN [eventBuffer |-> buf, writes |-> ws]
  ELSE [eventBuffer |-> buf,
        writes |-> Append(ws, writeToAzure(buf, Format(buf), trigger))]

\* event.messageTemplate.render(...) throws inside the map: nothing catches
\* it in flush, so the promise flush returned rejects and writeToAzure is
\* never called
renderThrows(events, trigger) ==
  [events |-> events, content |-> <<>>, client |-> currentBlobName,
   pc |-> "done", calls |-> <<>>, queue |-> <<>>, listed |-> <<>>,
   failed |-> FALSE, rotated |-> FALSE, trigger |-> trigger,
   result |-> "rejected"]

\* flush up to its first await: the guards, the swap of the buffer, the
\* formatting, and the start of writeToAzure
flush(buf, ws, trigger) ==
  IF options.disabled \/ Len(buf) = 0
  THEN [eventBuffer |-> buf, writes |-> ws]
  ELSE [eventBuffer |-> <<>>,
        writes |-> Append(ws,
          IF \A k \in DOMAIN buf : buf[k].renders
          THEN writeToAzure(buf, Format(buf), trigger)
          ELSE renderThrows(buf, trigger))]

\* a catch that logs and throws again: flush's promise rejects
CatchRethrow(w) ==
  [w EXCEPT !.pc = "done", !.failed = TRUE, !.result = "rejected"]

\* the catch of writeToAzure: log, swallow, return
Catch(w) == [w EXCEPT !.pc = "done", !.failed = TRUE, !.result = "resolved"]

\* writeToAzure returns, flush's await completes
Finish(w) == [w EXCEPT !.pc = "done", !.result = "resolved"]

\* await appendBlobClient.appendBlock(...): the client was bound before the
\* rotation decision, so the append goes to the blob the write started with
appendTarget(w) == Issue(w, "appendBlock", w.client)

\* after exists/create with the size check left out
AfterEnsureNoSizeCheck(w) == appendTarget(w)

\* after exists/create: the size check when a limit is set, else the append
afterEnsure(w) ==
  IF Opt("blobSizeLimitBytes") # 0
  THEN Issue(w, "getProperties", w.client)
  ELSE appendTarget(w)

\* a size check that always asks for a new blob
MustRotateAlways(currentSize, content) == TRUE

\* currentSize + newContentSize > this.options.blobSizeLimitBytes
mustRotate(currentSize, content) ==
  currentSize + ByteLength(content) > Opt("blobSizeLimitBytes")

\* the comparator with its operands swapped: newest first
SortsNewestFirst(a, b) ==
  \/ a.lastModified > b.lastModified
  \/ a.lastModified = b.lastModified /\ ListedBefore(a.name, b.name)

\* blobs.sort by lastModified; the sort is stable, so ties keep listing order
SortsBefore(a, b) ==
  \/ a.lastModified < b.lastModified
  \/ a.lastModified = b.lastModified /\ ListedBefore(a.name, b.name)

RECURSIVE sortBlobs(_)
sortBlobs(S) ==
  IF S = {} THEN <<>>
  ELSE LET m == CHOOSE a \in S : \A b \in S \ {a} : SortsBefore(a, b)
       IN <<m>> \o sortBlobs(S \ {m})

\* listBlobsFlat({ prefix }) collected into blobs[]
listBlobs(store) ==
  {[name |-> n, lastModified |-> store[n].lastModified] :
     n \in {x \in DOMAIN store : HasPrefix(x)}}

\* while (blobs.length > retainedBlobCountLimit) { shift; await delete }
deleteLoop(w, blobs) ==
  IF Len(blobs) > Opt("retainedBlobCountLimit")
  THEN [Issue(w, "delete", blobs[1].name) EXCEPT !.queue = Tail(blobs)]
  ELSE Finish([w EXCEPT !.queue = blobs])

\* cleanupOldBlobs up to its first await
cleanupOldBlobs(w) ==
  IF Opt("retainedBlobCountLimit") = 0 \/ Opt("retainedBlobCountLimit") < 1
  THEN Finish(w)
  ELSE Issue(w, "list", BaseName)

\* ------------------------------------------------------------------- emit
\* events handed to emit so far (ids count them)
NEmitted == IF Len(emits) = 0 THEN 0
            ELSE LET last == emits[Len(emits)]
                 IN IF Len(last) = 0 THEN 0 ELSE last[Len(last)].id

\* the filter with a strict comparison
FilterStrict(events) ==
  SelectSeq(events, LAMBDA e : e.level < options.restrictedToMinimumLevel)

\* events.filter((e) => e.level <= this.options.restrictedToMinimumLevel)
filter(events) ==
  SelectSeq(events, LAMBDA e : e.level <= options.restrictedToMinimumLevel)

\* emit with the batch test off by one: the flush starts only when the
\* buffer holds more than the limit
EmitEnabledAboveLimit(events) ==
  LET buf == eventBuffer \o filter(events)
      seen == IF Len(events) = 0 THEN NEmitted ELSE events[Len(events)].id
      keep == [timers |-> timers, flushTimer |-> flushTimer,
               nTimers |-> nTimers]
  IN IF options.flushImmediately
     THEN [f |-> flush(buf, writes, [by |-> "emit", seen |-> seen]), t |-> keep, batch |-> FALSE]
     ELSE IF Len(buf) > options.batchPostingLimit
     THEN [f |-> flush(buf, writes, [by |-> "batch", seen |-> seen]),
           t |-> startTimer(timers, flushTimer, nTimers), batch |-> TRUE]
     ELSE [f |-> [eventBuffer |-> buf, writes |-> writes], t |-> keep,
           batch |-> FALSE]

\* emit past the disabled guard
emitEnabled(events) ==
  LET buf == eventBuffer \o filter(events)
      seen == IF Len(events) = 0 THEN NEmitted ELSE events[Len(events)].id
      keep == [timers |-> timers, flushTimer |-> flushTimer,
               nTimers |-> nTimers]
  IN IF options.flushImmediately
     THEN [f |-> flush(buf, writes, [by |-> "emit", seen |-> seen]), t |-> keep, batch |-> FALSE]
     ELSE IF Len(buf) >= options.batchPostingLimit
     THEN [f |-> flush(buf, writes, [by |-> "batch", seen |-> seen]),
           t |-> startTimer(timers, flushTimer, nTimers), batch |-> TRUE]
     ELSE [f |-> [eventBuffer |-> buf, writes |-> writes], t |-> keep,
           batch |-> FALSE]

\* emit without its disabled guard
EmitNoDisabledCheck(events) == emitEnabled(events)

\* emit: the disabled guard, then the rest
emit(events) ==
  IF options.disabled
  THEN [f |-> [eventBuffer |-> eventBuffer, writes |-> writes],
        t |-> [timers |-> timers, flushTimer |-> flushTimer,
               nTimers |-> nTimers], batch |-> FALSE]
  ELSE emitEnabled(events)

\* ---------------------------------------------------------------- actions
InFlight == {i \in DOMAIN writes : writes[i].pc # "done"}

\* the host pipeline calls emit(events)
Emit ==
  \E k \in 1..(MaxEvents - NEmitted) :
    \E ls \in [1..k -> env.levels],
       rs \in [1..k -> IF env.badRender THEN BOOLEAN ELSE {TRUE}] :
      LET events == [j \in 1..k |->
                       [id |-> NEmitted + j, level |-> ls[j],
                        bytes |-> env.lineBytes, renders |-> rs[j]]]
          r == emit(events)
      IN /\ emits' = Append(emits, events)
         /\ eventBuffer' = r.f.eventBuffer
         /\ writes' = r.f.writes
         /\ timers' = r.t.timers
         /\ flushTimer' = r.t.flushTimer
         /\ nTimers' = r.t.nTimers
         /\ lastBatch' = IF r.batch THEN [at |-> now, n |-> lastBatch.n + 1]
                       ELSE lastBatch
         /\ UNCHANGED <<given, options, env, now, currentBlobName, container,
                        lastFire>>

\* a caller invokes the public flush()
Flush ==
  LET r == flush(eventBuffer, writes, [by |-> "explicit", seen |-> NEmitted])
  IN /\ eventBuffer' = r.eventBuffer
     /\ writes' = r.writes
     /\ UNCHANGED <<given, options, env, now, flushTimer, timers, nTimers,
                    currentBlobName, container, emits, lastBatch, lastFire>>

\* an interval whose callback does not flush
TimerFireNoFlush ==
  \E t \in timers :
    /\ Due(t) = now
    /\ timers' = (timers \ {t}) \cup {[t EXCEPT !.fires = @ + 1]}
    /\ lastFire' = [timer |-> t.id, armedAt |-> t.armedAt, at |-> now,
                    nth |-> t.fires + 1]
    /\ UNCHANGED <<given, options, env, now, eventBuffer, writes, flushTimer,
                   nTimers, currentBlobName, container, emits, lastBatch>>

\* an armed interval comes due and runs its callback, () => this.flush()
TimerFire ==
  \E t \in timers :
    /\ Due(t) = now
    /\ LET r == flush(eventBuffer, writes, [by |-> "timer", seen |-> NEmitted])
       IN /\ eventBuffer' = r.eventBuffer
          /\ writes' = r.writes
    /\ timers' = (timers \ {t}) \cup {[t EXCEPT !.fires = @ + 1]}
    /\ lastFire' = [timer |-> t.id, armedAt |-> t.armedAt, at |-> now,
                    nth |-> t.fires + 1]
    /\ UNCHANGED <<given, options, env, now, flushTimer, nTimers, currentBlobName,
                   container, emits, lastBatch>>

\* time passes; an interval that is due runs before the clock moves on
Tick ==
  /\ now < MaxTime
  /\ \A t \in timers : Due(t) > now
  /\ now' = now + 1
  /\ UNCHANGED <<given, options, env, eventBuffer, flushTimer, timers, nTimers,
                 currentBlobName, writes, container, emits, lastBatch,
                 lastFire>>

\* emit called while the explored time span still holds the interval's next
\* callback (an armed interval is due at most one period from now)
EmitInTime ==
  /\ now + Delay <= MaxTime
  /\ Emit

SinkUnchanged == UNCHANGED <<given, options, env, now, eventBuffer, flushTimer,
                             timers, nTimers, emits, lastBatch, lastFire>>

\* await appendBlobClient.exists()
ExistsReturns ==
  \E i \in DOMAIN writes :
    /\ writes[i].pc = "exists"
    /\ writes' = [writes EXCEPT ![i] =
         IF writes[i].client \in DOMAIN container
         THEN afterEnsure(writes[i])
         ELSE Issue(writes[i], "create", writes[i].client)]
    /\ UNCHANGED <<currentBlobName, container>>
    /\ SinkUnchanged

\* await appendBlobClient.create(): an empty append blob under that name,
\* replacing whatever was there
CreateReturns ==
  \E i \in DOMAIN writes :
    /\ writes[i].pc = "create"
    /\ container' =
         [n \in DOMAIN container \cup {writes[i].client} |->
            IF n = writes[i].client
            THEN [size |-> 0, lastModified |-> now, data |-> <<>>]
            ELSE container[n]]
    /\ writes' = [writes EXCEPT ![i] = afterEnsure(writes[i])]
    /\ UNCHANGED currentBlobName
    /\ SinkUnchanged

\* await appendBlobClient.getProperties(), then the rotation decision
GetPropertiesReturns ==
  \E i \in DOMAIN writes :
    LET w == writes[i]
        found == w.client \in DOMAIN container
        rotate == found /\ mustRotate(container[w.client].size, w.content)
    IN /\ w.pc = "getProperties"
       /\ currentBlobName' =
            IF rotate THEN generateNewBlobName(now) ELSE currentBlobName
       /\ writes' = [writes EXCEPT ![i] =
            IF found
            THEN appendTarget([w EXCEPT !.rotated = rotate])
            ELSE Catch(w)]
       /\ UNCHANGED container
       /\ SinkUnchanged

\* await appendBlobClient.appendBlock(content, length), then cleanupOldBlobs
AppendBlockReturns ==
  \E i \in DOMAIN writes :
    LET w == writes[i]
        target == w.calls[Len(w.calls)].blob
        found == target \in DOMAIN container
    IN /\ w.pc = "appendBlock"
       /\ container' =
            IF found
            THEN [container EXCEPT ![target] =
                    [size |-> @.size + ByteLength(w.content),
                     lastModified |-> now,
                     data |-> @.data \o w.content]]
            ELSE container
       /\ writes' = [writes EXCEPT ![i] =
            IF found THEN cleanupOldBlobs(w) ELSE Catch(w)]
       /\ UNCHANGED currentBlobName
       /\ SinkUnchanged

\* the listing arrives; sort, then start deleting from the oldest
ListReturns ==
  \E i \in DOMAIN writes :
    LET w == writes[i]
        blobs == sortBlobs(listBlobs(container))
    IN /\ w.pc = "list"
       /\ writes' = [writes EXCEPT ![i] =
            deleteLoop([w EXCEPT !.listed = blobs], blobs)]
       /\ UNCHANGED <<currentBlobName, container>>
       /\ SinkUnchanged

\* await blobClient.delete(), then the next round of the loop
DeleteReturns ==
  \E i \in DOMAIN writes :
    LET w == writes[i]
        target == w.calls[Len(w.calls)].blob
        found == target \in DOMAIN container
    IN /\ w.pc = "delete"
       /\ container' =
            IF found
            THEN [n \in DOMAIN container \ {target} |-> container[n]]
            ELSE container
       /\ writes' = [writes EXCEPT ![i] =
            IF found THEN deleteLoop(w, w.queue) ELSE Catch(w)]
       /\ UNCHANGED currentBlobName
       /\ SinkUnchanged

\* the awaited backend call rejects (network, auth, throttling): the catch
\* of writeToAzure swallows it
CallFails ==
  \E i \in DOMAIN writes :
    /\ env.faults
    /\ writes[i].pc # "done"
    /\ writes' = [writes EXCEPT ![i] = Catch(writes[i])]
    /\ UNCHANGED <<currentBlobName, container>>
    /\ SinkUnchanged

\* ------------------------------------------------------------------- init
\* the options a caller passes: the three required ones, period and batch
\* limit small enough to explore, and any of the optional ones
Given(extra) ==
  [k \in {"storageFileName", "period", "batchPostingLimit"} \cup DOMAIN extra |->
     IF k \in DOMAIN extra THEN extra[k]
     ELSE IF k = "storageFileName" THEN BaseName
     ELSE 2]

Blob(size, t) == [size |-> size, lastModified |-> t, data |-> <<>>]

\* what the container holds when the sink is constructed
EmptyStore == (OtherName :> Blob(4, -4))
OldStore ==
  (OtherName :> Blob(4, -4)) @@ (generateNewBlobName(-3) :> Blob(6, -3))
    @@ (generateNewBlobName(-2) :> Blob(3, -2)) @@ (BaseName :> Blob(3, -1))

SmallStore ==
  (OtherName :> Blob(4, -4)) @@ (generateNewBlobName(-2) :> Blob(3, -2))

Quiet(levels) ==
  [levels |-> levels, lineBytes |-> 2, faults |-> FALSE, badRender |-> FALSE]
Faulty(levels) ==
  [levels |-> levels, lineBytes |-> 2, faults |-> TRUE, badRender |-> FALSE]
\* the host may hand over events whose message template fails to render
Unrenderable(levels) ==
  [levels |-> levels, lineBytes |-> 2, faults |-> FALSE, badRender |-> TRUE]

Immediate(extra) ==
  Given([k \in {"flushImmediately"} \cup DOMAIN extra |->
           IF k = "flushImmediately" THEN TRUE ELSE extra[k]])

\* the main runs: timed, immediate and disabled sinks over a backend that
\* may fail, with rotation and with retention (three old blobs under a
\* retain limit of one, so that a pass has more than one blob to delete)
Configs ==
  {[given |-> Given(<<>>), env |-> Faulty({15}), store |-> EmptyStore],
   [given |-> Immediate(<<>>), env |-> Faulty({15}), store |-> EmptyStore],
   [given |-> Given([disabled |-> TRUE]), env |-> Quiet({15}),
    store |-> EmptyStore],
   [given |-> Immediate([blobSizeLimitBytes |-> 4]), env |-> Faulty({15}),
    store |-> EmptyStore],
   [given |-> Immediate([retainedBlobCountLimit |-> 1]),
    env |-> Faulty({15}), store |-> OldStore]}

\* the sink side alone: every minimum level against every event level, the
\* defaults, mixed batches, both periods
SinkConfigs ==
  {[given |-> Given([restrictedToMinimumLevel |-> l]), env |-> Quiet({e}),
    store |-> EmptyStore] : l \in Levels, e \in Levels}
  \cup
  {[given |-> Given(<<>>), env |-> Quiet(ls), store |-> EmptyStore] :
     ls \in {{e} : e \in Levels} \cup {{31, 63}}}
  \cup
  {[given |-> Given([period |-> 1]), env |-> Quiet({15}),
    store |-> EmptyStore],
   [given |-> Immediate(<<>>), env |-> Quiet({15, 63}),
    store |-> EmptyStore],
   [given |-> Given([disabled |-> TRUE]), env |-> Quiet({15}),
    store |-> EmptyStore]}

\* rotation and retention over a working backend
BlobConfigs ==
  {[given |-> Immediate([blobSizeLimitBytes |-> 4]), env |-> Quiet({15}),
    store |-> EmptyStore],
   [given |-> Given([blobSizeLimitBytes |-> 4]), env |-> Quiet({15}),
    store |-> EmptyStore],
   [given |-> Immediate(<<>>), env |-> Quiet({15}), store |-> OldStore],
   [given |-> Immediate([retainedBlobCountLimit |-> -1]),
    env |-> Quiet({15}), store |-> OldStore],
   [given |-> Immediate([retainedBlobCountLimit |-> 1]),
    env |-> Quiet({15}), store |-> EmptyStore],
   [given |-> Immediate([blobSizeLimitBytes |-> 4,
                         retainedBlobCountLimit |-> 2]),
    env |-> Quiet({15}), store |-> SmallStore],
   \* a size limit below the length of a single line: every write rotates
   [given |-> Immediate([blobSizeLimitBytes |-> 2,
                         retainedBlobCountLimit |-> 1]),
    env |-> Quiet({15}), store |-> EmptyStore]}
  \cup
  {[given |-> Immediate([retainedBlobCountLimit |-> r]),
    env |-> Quiet({15}), store |-> OldStore] : r \in {0, 1, 2, 3}}

\* timed and immediate sinks handed events that may fail to render
RenderConfigs ==
  {[given |-> Given(<<>>), env |-> Unrenderable({15}), store |-> EmptyStore],
   [given |-> Given([period |-> 1]), env |-> Unrenderable({15}),
    store |-> EmptyStore],
   [given |-> Immediate(<<>>), env |-> Unrenderable({15}),
    store |-> EmptyStore]}

\* timed sinks whose events all render, with batch thresholds that the
\* events handed over reach and do not reach
LiveConfigs ==
  {[given |-> Given(<<>>), env |-> Quiet({15}), store |-> EmptyStore],
   [given |-> Given([period |-> 1]), env |-> Quiet({15, 63}),
    store |-> EmptyStore],
   [given |-> Given([period |-> 1, batchPostingLimit |-> 100]),
    env |-> Quiet({15}), store |-> EmptyStore]}

\* the constructor
InitOf(configs) ==
  \E c \in configs :
    /\ given = c.given
    /\ options = MergeOptions(defaultOptions, c.given)
    /\ env = c.env
    /\ container = c.store
    /\ now = 0
    /\ eventBuffer = <<>>
    /\ currentBlobName =
         IF Opt("blobSizeLimitBytes") # 0 THEN generateNewBlobName(now)
         ELSE c.given.storageFileName
    /\ LET st == IF ~options.flushImmediately THEN startTimer({}, 0, 0)
                 ELSE [timers |-> {}, flushTimer |-> 0, nTimers |-> 0]
       IN /\ timers = st.timers
          /\ flushTimer = st.flushTimer
          /\ nTimers = st.nTimers
    /\ writes = <<>>
    /\ emits = <<>>
    /\ lastBatch = [at |-> -1, n |-> 0]
    /\ lastFire = [timer |-> 0, armedAt |-> -1, at |-> -1, nth |-> 0]

Init == InitOf(Configs)

InitSink == InitOf(SinkConfigs)

InitBlobs == InitOf(BlobConfigs)

InitRender == InitOf(RenderConfigs)

InitLive == InitOf(LiveConfigs)

\* the backend's answers
Backend ==
  \/ ExistsReturns
  \/ CreateReturns
  \/ GetPropertiesReturns
  \/ AppendBlockReturns
  \/ ListReturns
  \/ DeleteReturns

\* the sink's own entry points and the clock
NextSink ==
  \/ Emit
  \/ Flush
  \/ TimerFire
  \/ Tick

NextBlobs ==
  \/ NextSink
  \/ Backend

\* the sink with emit kept inside the explored time span
NextLive ==
  \/ EmitInTime
  \/ Flush
  \/ TimerFire
  \/ Tick

Next ==
  \/ NextSink
  \/ Backend
  \/ CallFails

Spec == Init /\ [][Next]_vars

SpecSink == InitSink /\ [][NextSink]_vars

SpecBlobs == InitBlobs /\ [][NextBlobs]_vars

SpecRender == InitRender /\ [][NextSink]_vars

\* the runtime keeps its clock running and runs a due interval callback
SpecLive ==
  InitLive /\ [][NextLive]_vars /\ WF_vars(Tick) /\ WF_vars(TimerFire)

\* ----------------------------------------------------------------- claims
Range(q) == {q[k] : k \in DOMAIN q}

\* every event handed to emit so far
Passed == UNION {Range(emits[c]) : c \in DOMAIN emits}

\* the events the level filter lets through
Accepted == {e \in Passed : e.level <= options.restrictedToMinimumLevel}

\* the events whose line a formatted content holds
EventsIn(content) == {e \in Passed : Line(e) \in Range(content)}

Flushed == UNION {EventsIn(writes[i].content) : i \in DOMAIN writes}

Buffered == Range(eventBuffer)

\* the appendBlock calls issued so far, as <<write, position>>
AppendCalls ==
  {c \in UNION {{<<i, k>> : k \in DOMAIN writes[i].calls} : i \in DOMAIN writes} :
     writes[c[1]].calls[c[2]].op = "appendBlock"}

C3_FlushSerialized == Cardinality(InFlight) <= 1

\* C4: a write one of whose backend calls failed resolves (never rejects),
\* its events are not back in the buffer, which holds only events emitted
\* after that write detached, and no second appendBlock is ever issued for
\* them.
C4_FailureSwallowed ==
  \A i \in DOMAIN writes :
    writes[i].failed =>
      /\ writes[i].pc = "done"
      /\ writes[i].result = "resolved"
      /\ Range(writes[i].events) \cap Buffered = {}
      /\ \A e \in Buffered : e.id > writes[i].trigger.seen
      /\ Cardinality({c \in AppendCalls :
                        EventsIn(writes[c[1]].calls[c[2]].arg)
                          \cap Range(writes[i].events) # {}}) <= 1

\* a failed write, with an event emitted after its detach in the buffer
C4_Witness ==
  \E i \in DOMAIN writes :
    /\ writes[i].failed
    /\ \E e \in Buffered : e.id > writes[i].trigger.seen

\* C5: on a sink that is not disabled, an event handed to emit is in the
\* buffer or in a flush's content exactly if its level is at most the
\* configured minimum level.
C5_LevelFilter ==
  ~options.disabled =>
    \A e \in Passed :
      (e \in Buffered \cup Flushed) <=> (e.level <= options.restrictedToMinimumLevel)

\* an event at the threshold was kept and one above it was dropped
C5_Witness ==
  /\ ~options.disabled
  /\ \E e \in Passed :
       e.level = options.restrictedToMinimumLevel /\ e \in Buffered \cup Flushed
  /\ \E e \in Passed :
       e.level > options.restrictedToMinimumLevel /\ e \notin Buffered \cup Flushed

NoLevelGiven == "restrictedToMinimumLevel" \notin DOMAIN given

\* C6 as claimed: without a minimum-level option the threshold is the most
\* verbose level, so every event handed to emit, Verbose included, is
\* buffered or flushed.
C6_DefaultIsMostVerbose ==
  (NoLevelGiven /\ ~options.disabled) =>
    \A e \in Passed : e \in Buffered \cup Flushed

\* C6 amended: without a minimum-level option the threshold is Debug (31):
\* events of the levels 1, 3, 7, 15 and 31 are buffered or flushed, and
\* Verbose (63) events are dropped.
C6_DefaultIsDebug ==
  (NoLevelGiven /\ ~options.disabled) =>
    /\ mapLogLevel(options.restrictedToMinimumLevel) = "Debug"
    /\ \A e \in Passed :
         (e \in Buffered \cup Flushed) <=> (e.level \in {1, 3, 7, 15, 31})

\* default options, a Debug event kept and a Verbose event dropped
C6_Witness ==
  /\ NoLevelGiven /\ ~options.disabled
  /\ \E e \in Passed : e.level = 31 /\ e \in Buffered \cup Flushed
  /\ \E e \in Passed : e.level = 63 /\ e \notin Buffered \cup Flushed

\* C7: after a batch-threshold trigger the one armed interval is the one
\* armed at that trigger, and every timer callback that runs afterwards
\* belongs to it: the first exactly one period after the trigger, never one
\* scheduled at construction or at an earlier re-arm.
C7_BatchRearmsTimer ==
  [][/\ lastBatch'.n # lastBatch.n
         => timers' = {[id |-> flushTimer', armedAt |-> now, fires |-> 0]}
     /\ (lastFire' # lastFire /\ lastBatch.n > 0)
         => /\ lastFire'.timer = flushTimer
            /\ lastFire'.armedAt = lastBatch.at
            /\ lastFire'.at = lastBatch.at + lastFire'.nth * Delay]_vars

\* a timer callback ran one period after a batch trigger that came later
\* than construction
C7_Witness ==
  /\ lastBatch.at > 0
  /\ lastFire.armedAt = lastBatch.at
  /\ lastFire.at = lastBatch.at + Delay

\* C8: a disabled sink has issued no backend call and its buffer is empty.
C8_DisabledDoesNothing ==
  options.disabled =>
    /\ eventBuffer = <<>>
    /\ \A i \in DOMAIN writes : writes[i].calls = <<>>
    /\ writes = <<>>

\* a disabled sink that was handed events and whose timer has fired
C8_Witness ==
  /\ options.disabled
  /\ Passed # {}
  /\ lastFire.at >= 0

CallsOf(i, op) == {k \in DOMAIN writes[i].calls : writes[i].calls[k].op = op}

\* C2 as claimed: a write that decides to rotate issues its append against
\* the new blob name, not against the blob it read the size of.
C2_RotatedWriteAppendsToNewBlob ==
  \A i \in DOMAIN writes :
    writes[i].rotated =>
      \A k \in CallsOf(i, "appendBlock") :
        writes[i].calls[k].blob # writes[i].client

\* C9: on an immediate-flush sink over a working backend no timer is ever
\* armed, the buffer is empty between calls, and an emit of one accepted
\* event e leads to one write whose only appendBlock carries exactly e's
\* line and a newline; no other appendBlock carries e's line.
C9_ImmediateOneAppend ==
  (options.flushImmediately /\ ~options.disabled /\ ~env.faults) =>
    /\ timers = {} /\ flushTimer = 0
    /\ eventBuffer = <<>>
    /\ \A c \in DOMAIN emits :
         (Len(emits[c]) = 1 /\ emits[c][1] \in Accepted) =>
           LET e == emits[c][1]
               mine == {a \in AppendCalls :
                          e \in EventsIn(writes[a[1]].calls[a[2]].arg)}
           IN /\ Cardinality(mine) <= 1
              /\ \A a \in mine :
                   /\ writes[a[1]].calls[a[2]].arg = <<Line(e), NL>>
                   /\ writes[a[1]].events = <<e>>
              /\ \E i \in DOMAIN writes :
                   /\ writes[i].events = <<e>>
                   /\ writes[i].pc = "done" => Cardinality(mine) = 1

\* an immediate-flush sink whose write of a one-event emit has completed
C9_Witness ==
  /\ options.flushImmediately /\ ~options.disabled /\ ~env.faults
  /\ \E c \in DOMAIN emits, i \in DOMAIN writes :
       /\ Len(emits[c]) = 1
       /\ writes[i].events = emits[c]
       /\ writes[i].pc = "done"
       /\ CallsOf(i, "appendBlock") # {}

RetainLimit == Opt("retainedBlobCountLimit")

DeletedBy(i) == {writes[i].calls[k].blob : k \in CallsOf(i, "delete")}

\* C10: with a retain limit R >= 1, a retention pass that completes without
\* a failed call over a listing with distinct last-modified times has
\* deleted exactly the listed blobs that have at least R newer ones (the
\* N - R oldest, none when N <= R); with the limit unset or below 1 no list
\* and no delete call is issued.
C10_RetentionDeletesOldest ==
  /\ RetainLimit < 1 =>
       \A i \in DOMAIN writes : CallsOf(i, "list") \cup CallsOf(i, "delete") = {}
  /\ RetainLimit >= 1 =>
       \A i \in DOMAIN writes :
         LET listing == Range(writes[i].listed)
             newer(b) == {c \in listing : c.lastModified > b.lastModified}
         IN (/\ writes[i].pc = "done" /\ ~writes[i].failed
             /\ CallsOf(i, "list") # {}
             /\ \A a, b \in listing :
                  a # b => a.lastModified # b.lastModified)
            => /\ DeletedBy(i) =
                    {b.name : b \in {x \in listing : Cardinality(newer(x)) >= RetainLimit}}
               /\ Cardinality(DeletedBy(i)) =
                    IF Cardinality(listing) > RetainLimit
                    THEN Cardinality(listing) - RetainLimit ELSE 0
               /\ Cardinality(CallsOf(i, "delete")) = Cardinality(DeletedBy(i))

\* a completed pass that listed three blobs under a limit of one and
\* deleted two
C10_Witness ==
  \E i \in DOMAIN writes :
    /\ writes[i].pc = "done" /\ ~writes[i].failed
    /\ RetainLimit = 1
    /\ Len(writes[i].listed) = 3
    /\ Cardinality(DeletedBy(i)) = 2

\* the blobs a retention pass selected: the listed ones beyond the newest R
Selected(i) ==
  {writes[i].listed[k].name :
     k \in 1..(IF Len(writes[i].listed) > RetainLimit
               THEN Len(writes[i].listed) - RetainLimit ELSE 0)}

\* C11: a retention pass that has ended has attempted the delete of every
\* blob it selected, whether or not one of its delete calls failed.
C11_DeleteFailureIsolated ==
  \A i \in DOMAIN writes :
    (writes[i].pc = "done" /\ CallsOf(i, "delete") # {})
      => Selected(i) \subseteq DeletedBy(i)

\* C12: no failure crosses the public boundary: also when an event fails to
\* render, a flush called explicitly or by the timer neither raises nor
\* completes with a rejected result.  (emit has no raising outcome to check:
\* its body sits in a try/catch and the flush it calls is asynchronous.)
C12_NothingCrossesBoundary ==
  \A i \in DOMAIN writes :
    writes[i].trigger.by \in {"explicit", "timer"}
      => writes[i].result # "rejected"

\* C13: on a sink that is not disabled and has a batch threshold B >= 1 the
\* buffer holds fewer than B events whenever no call is running (so after
\* every emit), and none at all in immediate mode, whatever flushes are in
\* flight or have failed.
C13_BufferBelowThreshold ==
  (~options.disabled /\ options.batchPostingLimit >= 1) =>
    /\ Len(eventBuffer) < options.batchPostingLimit
    /\ options.flushImmediately => eventBuffer = <<>>

\* an emit has brought the buffer up to the threshold and returned with the
\* buffer detached, and the write it started has failed
C13_Witness ==
  /\ ~options.disabled /\ ~options.flushImmediately
  /\ lastBatch.n > 0
  /\ \E i \in DOMAIN writes :
       /\ writes[i].trigger.by = "batch" /\ writes[i].failed
       /\ Len(writes[i].events) = options.batchPostingLimit

\* C14: the sink offers a stop operation: while an interval is armed, one of
\* the sink's operations can be called that leaves no interval armed (after
\* which no timer-triggered flush starts).
C14_StopOffered ==
  timers # {} => ENABLED (NextSink /\ timers' = {})

Ops(w) == [k \in DOMAIN w.calls |-> w.calls[k].op]

\* C15: within each write the existence check is the first call; create is
\* issued only when that check returned absent; getProperties is issued
\* only with a size limit configured and then precedes the append; the list
\* and the deletes are issued only after that write's append succeeded; a
\* step that fails issues nothing, and nothing is issued after it.
C15_CallOrder ==
  [][\A i \in DOMAIN writes' :
       IF i \notin DOMAIN writes
       THEN Ops(writes'[i]) \in {<<>>, <<"exists">>}
       ELSE LET w == writes[i]
                v == writes'[i]
                c == v.calls[Len(v.calls)]
                last == w.calls[Len(w.calls)]
            IN /\ (w.failed \/ v.failed) => v.calls = w.calls
               /\ v.calls # w.calls =>
                    /\ v.calls = Append(w.calls, c)
                    /\ Ops(w)[1] = "exists"
                    /\ c.op # "exists"
                    /\ c.op = "create" =>
                         /\ Ops(w) = <<"exists">>
                         /\ w.client \notin DOMAIN container
                    /\ c.op = "getProperties" =>
                         /\ Opt("blobSizeLimitBytes") # 0
                         /\ Ops(w) \in {<<"exists">>, <<"exists", "create">>}
                    /\ c.op = "appendBlock" =>
                         Ops(w) \in
                           IF Opt("blobSizeLimitBytes") # 0
                           THEN {<<"exists", "getProperties">>,
                                 <<"exists", "create", "getProperties">>}
                           ELSE {<<"exists">>, <<"exists", "create">>}
                    /\ c.op = "list" =>
                         /\ last.op = "appendBlock"
                         /\ last.blob \in DOMAIN container
                         /\ container'[last.blob].data
                              = container[last.blob].data \o w.content
                    /\ c.op = "delete" =>
                         /\ last.op \in {"list", "delete"}
                         /\ CallsOf(i, "appendBlock") # {}]_vars

\* one write has gone through its append, its list and its deletes, and
\* another has failed at its append and issued no list
C15_Witness ==
  \E i, j \in DOMAIN writes :
    /\ Ops(writes[i]) = <<"exists", "appendBlock", "list", "delete", "delete">>
    /\ writes[i].pc = "done" /\ ~writes[i].failed
    /\ writes[j].failed
    /\ Ops(writes[j])[Len(writes[j].calls)] = "appendBlock"

\* C16: the active blob name changes only in the step where a write's size
\* check finds current size plus content above the limit, and then to the
\* name generated at that instant; with no size limit configured it is the
\* base file name in every state.
C16_NameChangesOnlyAtRotation ==
  [][/\ currentBlobName' # currentBlobName =>
          \E i \in DOMAIN writes :
            /\ writes[i].pc = "getProperties"
            /\ writes[i].client \in DOMAIN container
            /\ container[writes[i].client].size
                 + ByteLength(writes[i].content) > Opt("blobSizeLimitBytes")
            /\ writes'[i].rotated
            /\ currentBlobName' = generateNewBlobName(now)
     /\ Opt("blobSizeLimitBytes") = 0 =>
          currentBlobName = BaseName /\ currentBlobName' = BaseName]_vars

\* a write's size check, later than construction, has changed the active
\* name, after an earlier write went through its size check without a change
C16_Witness ==
  /\ currentBlobName.kind = "gen" /\ currentBlobName.ts > 0
  /\ \E i, j \in DOMAIN writes :
       /\ i < j
       /\ CallsOf(i, "appendBlock") # {} /\ ~writes[i].rotated
       /\ writes[j].rotated /\ writes[j].client # currentBlobName

\* the events handed to writeToAzure
Written ==
  UNION {Range(writes[i].events) :
           i \in {j \in DOMAIN writes : writes[j].calls # <<>>}}

\* C17: on a timed sink that is not disabled, with the interval firing and
\* no render failure, every event in the buffer is eventually detached and
\* handed to writeToAzure, whether or not the batch threshold is reached or
\* flush is called.
C17_TimerFlushesEventually ==
  \A id \in 1..MaxEvents :
    (/\ ~options.disabled /\ ~options.flushImmediately
     /\ \E e \in Buffered : e.id = id)
      ~> (\E e \in Written : e.id = id /\ e \notin Buffered)

\* the timer has flushed a buffer that was below the batch threshold
C17_Witness ==
  \E i \in DOMAIN writes :
    /\ writes[i].trigger.by = "timer"
    /\ Len(writes[i].events) < options.batchPostingLimit
    /\ writes[i].calls # <<>>

\* the ids of the events whose lines a blob holds, in the order appended
RECURSIVE EventOrder(_)
EventOrder(data) ==
  IF Len(data) = 0 THEN <<>>
  ELSE (IF data[1] = NL THEN <<>> ELSE <<data[1].event>>)
       \o EventOrder(Tail(data))

\* C18: with no size limit and a backend that never fails, the lines in a
\* blob are in the order their events were handed to emit, however the
\* flushes overlap.
C18_AppendedInEmitOrder ==
  (Opt("blobSizeLimitBytes") = 0 /\ ~env.faults) =>
    \A n \in DOMAIN container :
      LET ids == EventOrder(container[n].data)
      IN \A p, q \in DOMAIN ids : p < q => ids[p] < ids[q]

\* C19: with a size limit configured and no single write's content above
\* it, no blob the sink has written to is larger than the limit.
C19_BlobWithinLimit ==
  (/\ Opt("blobSizeLimitBytes") # 0
   /\ \A i \in DOMAIN writes :
        ByteLength(writes[i].content) <= Opt("blobSizeLimitBytes"))
    => \A n \in DOMAIN container :
         container[n].data # <<>> =>
           container[n].size <= Opt("blobSizeLimitBytes")

\* the writes that have resolved the blob they append to (it existed or
\* they created it) and have not appended yet
AwaitingAppend ==
  {i \in DOMAIN writes : writes[i].pc \in {"getProperties", "appendBlock"}}

\* C20: no step of a retention pass deletes a blob that a write in flight
\* has resolved as its append target and not yet appended to.
C20_RetentionSparesTargets ==
  [][\A i \in AwaitingAppend :
       writes[i].client \in DOMAIN container
         => writes[i].client \in DOMAIN container']_vars

====
